---- MODULE Spec2Model ----
(***************************************************************************)
(* The example classes of the magic methods guide as state machines:       *)
(*   Slate          listings/slate.py   (and magicmethods.py)              *)
(*   AccessCounter  listings/access.py  and magicmethods.py                *)
(*   Closer         listings/closer.py  (and magicmethods.py)              *)
(* Each class has its own specification (Spec, SpecUntrusted, SpecAccess,  *)
(* SpecCloser); the variables of the other classes stay idle in it.        *)
(***************************************************************************)
EXTENDS Integers, Sequences, FiniteSets, TLC

\* ---------------------------------------------------------------- bounds
MaxValue == 1
MaxNow == 4
TicksPerSecond == 2
MaxCalls == 3
MaxOps == 4
MaxBlocks == 3

\* --------------------------------------------------------- Python values
\* None, the value __setstate__ gives value and last_change. Values and
\* timestamp tokens are naturals, so None is distinct from all of them.
None == -1

Values == 0..MaxValue

\* A Python object bound to an attribute: its type and its items.
Dict(f) == [type |-> "dict", items |-> f]

\* d[k] = v on a dict: adds the key or overwrites the entry already there.
setitem(d, k, v) == [x \in (DOMAIN d) \cup {k} |-> IF x = k THEN v ELSE d[x]]

\* time.asctime(): the clock rendered with a resolution of one second.
asctime(t) == t \div TicksPerSecond

\* cPickle.dumps / loads of the state: a dict is written as its (key, value)
\* pairs and rebuilt from them; the type of the object is kept.
dumps(obj) == [type |-> obj.type,
               items |-> {<<k, obj.items[k]>> : k \in DOMAIN obj.items}]

loads(form) == [type |-> form.type,
                items |-> [k \in {p[1] : p \in form.items} |->
                              (CHOOSE p \in form.items : p[1] = k)[2]]]

\* The name r before `r = dumps(s)` has run.
Unassigned == [type |-> "unassigned", items |-> {}]

\* Serialized forms that are not a mapping: a pickled list, a pickled None.
ForeignForms == {[type |-> "list", items |-> {<<0, v>>}] : v \in Values}
                \cup {[type |-> "NoneType", items |-> {}]}

VARIABLES
    \* Slate
    value, last_change, history,   \* the attributes of the Slate s
    now,                           \* the clock, in ticks
    r,                             \* the pickle r = dumps(s)
    out,                           \* what the last print_changes printed
    err,                           \* the exception the last call raised, "" for none
    lastCall,                      \* the last step taken
    origin,                        \* how s was made: "constructed" or "unpickled"
    calls,                         \* the change() calls made on s since it was made
    \* AccessCounter
    a_impl, a_dict, a_err, a_changes, a_ops,
    \* Closer
    obj, c_pc, c_raised, c_log

slateVars == <<value, last_change, history, now, r, out, err, lastCall, origin, calls>>
accessVars == <<a_impl, a_dict, a_err, a_changes, a_ops>>
closerVars == <<obj, c_pc, c_raised, c_log>>
vars == <<slateVars, accessVars, closerVars>>

\* ================================================================= Slate

\* Slate.__init__(value) at some time of the clock.
SlateInit ==
    /\ value \in Values
    /\ now \in 0..MaxNow
    /\ last_change = asctime(now)
    /\ history = Dict(<<>>)
    /\ r = Unassigned
    /\ out = [header |-> FALSE, lines |-> {}]
    /\ err = ""
    /\ lastCall = "__init__"
    /\ origin = "constructed"
    /\ calls = <<>>

\* The Slate before any of it runs (the other classes' specifications).
SlateIdle ==
    /\ value = 0
    /\ now = 0
    /\ last_change = asctime(0)
    /\ history = Dict(<<>>)
    /\ r = Unassigned
    /\ out = [header |-> FALSE, lines |-> {}]
    /\ err = ""
    /\ lastCall = "__init__"
    /\ origin = "constructed"
    /\ calls = <<>>

\* Time passes.
Tick ==
    /\ now < MaxNow
    /\ now' = now + 1
    /\ lastCall' = "tick"
    /\ UNCHANGED <<value, last_change, history, r, out, err, origin, calls>>
    /\ UNCHANGED <<accessVars, closerVars>>

\* A change() that commits the new value instead of the one it replaces.
change_history_new(new_value) ==
    Dict(setitem(history.items, last_change, new_value))

\* A change() that keeps the entry already recorded at the timestamp.
change_history_keep(new_value) ==
    Dict([x \in (DOMAIN history.items) \cup {last_change} |->
            IF x \in DOMAIN history.items THEN history.items[x] ELSE value])

\* self.history[self.last_change] = self.value
change_history(new_value) ==
    Dict(setitem(history.items, last_change, value))

\* Slate.change(new_value). Item assignment on an object that is no dict
\* raises TypeError before anything is assigned.
change(new_value) ==
    /\ Len(calls) < MaxCalls
    /\ IF history.type = "dict"
       THEN /\ history' = change_history(new_value)
            /\ value' = new_value
            /\ last_change' = asctime(now)
            /\ err' = ""
       ELSE /\ err' = "TypeError"
            /\ UNCHANGED <<history, value, last_change>>
    /\ calls' = Append(calls, [t |-> last_change, old |-> value, new |-> new_value])
    /\ lastCall' = "change"
    /\ UNCHANGED <<now, r, out, origin>>
    /\ UNCHANGED <<accessVars, closerVars>>

\* A print_changes() that empties the dict while it lists it.
print_changes_consuming ==
    /\ out' = [header |-> TRUE,
               lines |-> {<<k, history.items[k]>> : k \in DOMAIN history.items}]
    /\ history' = Dict(<<>>)
    /\ err' = ""
    /\ lastCall' = "print_changes"
    /\ UNCHANGED <<value, last_change, now, r, origin, calls>>
    /\ UNCHANGED <<accessVars, closerVars>>

\* Slate.print_changes(): the header, then one line per item of history, in
\* the dict's order (the lines are kept as a set). An object without items()
\* raises AttributeError after the header.
print_changes ==
    /\ IF history.type = "dict"
       THEN /\ out' = [header |-> TRUE,
                       lines |-> {<<k, history.items[k]>> : k \in DOMAIN history.items}]
            /\ err' = ""
       ELSE /\ out' = [header |-> TRUE, lines |-> {}]
            /\ err' = "AttributeError"
    /\ lastCall' = "print_changes"
    /\ UNCHANGED <<value, last_change, history, now, r, origin, calls>>
    /\ UNCHANGED <<accessVars, closerVars>>

\* Slate.__getstate__(): the history, and neither value nor last_change.
getstate == history

\* A __setstate__ that leaves value and last_change as they are.
setstate_keeps_value(state) ==
    [history |-> state, value |-> value, last_change |-> last_change]

\* A __setstate__ that starts from an empty history.
setstate_drops_state(state) ==
    [history |-> Dict(<<>>), value |-> None, last_change |-> None]

\* Slate.__setstate__(state): no check of state.
setstate(state) ==
    [history |-> state, value |-> None, last_change |-> None]

\* r = dumps(s)
Dumps ==
    /\ r' = dumps(getstate)
    /\ lastCall' = "dumps"
    /\ UNCHANGED <<value, last_change, history, now, out, err, origin, calls>>
    /\ UNCHANGED <<accessVars, closerVars>>

\* s = loads(r): a new instance made without __init__, then __setstate__.
Loads ==
    /\ r # Unassigned
    /\ LET s == setstate(loads(r))
       IN  /\ history' = s.history
           /\ value' = s.value
           /\ last_change' = s.last_change
    /\ origin' = "unpickled"
    /\ calls' = <<>>
    /\ err' = ""
    /\ lastCall' = "loads"
    /\ UNCHANGED <<now, r, out>>
    /\ UNCHANGED <<accessVars, closerVars>>

\* A pickle that does not come from dumps(s) is handed to the program.
Receive(form) ==
    /\ r' = form
    /\ lastCall' = "receive"
    /\ UNCHANGED <<value, last_change, history, now, out, err, origin, calls>>
    /\ UNCHANGED <<accessVars, closerVars>>

\* ========================================================= AccessCounter
AttrNames == {"value", "other"}

\* AccessCounter.__init__(val), in either file.
AccessInit ==
    /\ a_impl \in {"listing", "module"}
    /\ \E val \in Values : a_dict = [n \in {"counter", "value"} |->
                                        IF n = "counter" THEN 0 ELSE val]
    /\ a_err = ""
    /\ a_changes = 0
    /\ a_ops = 0

AccessIdle ==
    /\ a_impl = "module"
    /\ a_dict = [n \in {"counter", "value"} |-> 0]
    /\ a_err = ""
    /\ a_changes = 0
    /\ a_ops = 0

\* The counter incremented in the instance's dict.
bump(d) == [d EXCEPT !["counter"] = @ + 1]

\* AccessCounter.__setattr__(name, val). listings/access.py sets every name;
\* magicmethods.py sets value and ignores the other names.
setattr(name, val) ==
    /\ a_ops < MaxOps
    /\ a_ops' = a_ops + 1
    /\ a_dict' = IF name = "value"
                 THEN setitem(bump(a_dict), "value", val)
                 ELSE IF a_impl = "listing"
                      THEN setitem(a_dict, name, val)
                      ELSE a_dict
    /\ a_err' = ""
    /\ a_changes' = IF name = "value" THEN a_changes + 1 ELSE a_changes
    /\ UNCHANGED a_impl
    /\ UNCHANGED <<slateVars, closerVars>>

\* AccessCounter.__delattr__(name): the counter is incremented first, then
\* the attribute is deleted, which raises when it is absent (AttributeError
\* in listings/access.py, KeyError in magicmethods.py, which also ignores
\* every name but value).
\* Line 23 of listings/access.py ends in a stray ']'; the method is read
\* without it.
delattr(name) ==
    /\ a_ops < MaxOps
    /\ a_ops' = a_ops + 1
    /\ LET d == IF name = "value" THEN bump(a_dict) ELSE a_dict
           deletes == name = "value" \/ a_impl = "listing"
       IN  IF deletes /\ name \in DOMAIN d
           THEN /\ a_dict' = [n \in (DOMAIN d) \ {name} |-> d[n]]
                /\ a_err' = ""
                /\ a_changes' = IF name = "value" THEN a_changes + 1 ELSE a_changes
           ELSE /\ a_dict' = d
                /\ a_err' = IF ~deletes THEN ""
                            ELSE IF a_impl = "listing" THEN "AttributeError"
                                 ELSE "KeyError"
                /\ a_changes' = a_changes
    /\ UNCHANGED a_impl
    /\ UNCHANGED <<slateVars, closerVars>>

\* ================================================================ Closer
\* The objects of the demo: an int (no close method) and an open file.
Objects == {"int", "file"}
HasClose(o) == o = "file"

\* How the body of the with statement ends: normally, or raising.
BodyOutcomes == {"none", "AttributeError", "ValueError"}

CloserInit ==
    /\ obj = "unbound"
    /\ c_pc = "idle"
    /\ c_raised = "none"
    /\ c_log = <<>>

\* with Closer(o) as test: __init__ and __enter__.
With(o) ==
    /\ c_pc = "idle"
    /\ Len(c_log) < MaxBlocks
    /\ obj' = o
    /\ c_pc' = "body"
    /\ c_raised' = "none"
    /\ UNCHANGED c_log
    /\ UNCHANGED <<slateVars, accessVars>>

\* The body runs to its end or raises.
Body(exc) ==
    /\ c_pc = "body"
    /\ c_raised' = exc
    /\ c_pc' = "exit"
    /\ UNCHANGED <<obj, c_log>>
    /\ UNCHANGED <<slateVars, accessVars>>

\* Closer.__exit__: self.obj.close(); without a close method the
\* AttributeError is caught and __exit__ returns True, so whatever the body
\* raised is suppressed; else it returns None and the exception propagates.
Exit ==
    /\ c_pc = "exit"
    /\ c_log' = Append(c_log,
                  IF HasClose(obj)
                  THEN [obj |-> obj, raised |-> c_raised, closes |-> 1,
                        printed |-> FALSE, propagated |-> c_raised]
                  ELSE [obj |-> obj, raised |-> c_raised, closes |-> 0,
                        printed |-> TRUE, propagated |-> "none"])
    /\ c_pc' = "idle"
    /\ UNCHANGED <<obj, c_raised>>
    /\ UNCHANGED <<slateVars, accessVars>>

\* ======================================================== specifications
Init == SlateInit /\ AccessIdle /\ CloserInit

Next ==
    \/ Tick
    \/ \E new_value \in Values : change(new_value)
    \/ print_changes
    \/ Dumps
    \/ Loads

Spec == Init /\ [][Next]_vars

\* The Slate when pickles made elsewhere reach it too.
NextUntrusted ==
    \/ Tick
    \/ \E new_value \in Values : change(new_value)
    \/ print_changes
    \/ Dumps
    \/ Loads
    \/ \E form \in ForeignForms : Receive(form)

SpecUntrusted == Init /\ [][NextUntrusted]_vars

InitAccess == SlateIdle /\ AccessInit /\ CloserInit

NextAccess ==
    \/ \E name \in AttrNames, val \in Values : setattr(name, val)
    \/ \E name \in AttrNames : delattr(name)

SpecAccess == InitAccess /\ [][NextAccess]_vars

InitCloser == SlateIdle /\ AccessIdle /\ CloserInit

NextCloser ==
    \/ \E o \in Objects : With(o)
    \/ \E exc \in BodyOutcomes : Body(exc)
    \/ Exit

SpecCloser == InitCloser /\ [][NextCloser]_vars

\* ================================================================ claims
Keys(h) == DOMAIN h.items

\* C1 (as claimed): on a constructed Slate, after N change() calls history
\* has exactly N entries, and the entry of each call holds the value that
\* was current immediately before that call.
C1_HistoryCountsChanges ==
    origin = "constructed" =>
        /\ Cardinality(Keys(history)) = Len(calls)
        /\ \A i \in 1..Len(calls) :
              /\ calls[i].t \in Keys(history)
              /\ history.items[calls[i].t] = calls[i].old

\* C2 (as claimed): a change() on an unpickled Slate succeeds and adds an
\* entry under a key that is a real timestamp (not None) and was not a key
\* of history before.
C2_FreshKeyAfterDeserialize ==
    [][(origin = "unpickled" /\ lastCall' = "change") =>
          /\ err' = ""
          /\ \E k \in Keys(history') \ Keys(history) : k # None]_vars

\* C3: round trip. r = dumps(s) directly followed by s = loads(r), on a
\* constructed Slate, leaves history exactly as it was (same keys, same
\* values); an empty history stays empty.
C3_RoundTrip ==
    [][(origin = "constructed" /\ lastCall = "dumps" /\ lastCall' = "loads") =>
          /\ history' = history
          /\ Keys(history') = Keys(history)
          /\ \A k \in Keys(history) : history'.items[k] = history.items[k]
          /\ (Keys(history) = {} => Keys(history') = {})]_vars

\* C3 witness: an unpickled Slate whose history holds two entries made by
\* change() calls on a constructed Slate.
C3_Witness ==
    /\ lastCall = "loads"
    /\ None \notin Keys(history)
    /\ Cardinality(Keys(history)) >= 2

\* C4: reset law. The pickle made by dumps holds the items of history and
\* nothing else, and right after loads both value and last_change are None,
\* whatever the history holds.
C4_ResetLaw ==
    /\ lastCall = "dumps" =>
          /\ r.type = "dict"
          /\ r.items = {<<k, history.items[k]>> : k \in Keys(history)}
    /\ lastCall = "loads" => (value = None /\ last_change = None)

\* C4 witness: a Slate just unpickled with a non-empty history.
C4_Witness ==
    /\ lastCall = "loads"
    /\ Keys(history) # {}
    /\ value = None

\* C5 (as claimed): on a constructed Slate no value stored in history is
\* equal to the value currently held.
C5_HistoryLacksCurrentValue ==
    origin = "constructed" =>
        \A k \in Keys(history) : history.items[k] # value

\* C5 (amended): on a constructed Slate every entry of history is a
\* superseded value: it was written by a change() call, under the timestamp
\* that call found in last_change, and holds the value that call replaced.
C5_HistoryHoldsSuperseded ==
    origin = "constructed" =>
        \A k \in Keys(history) :
            \E i \in 1..Len(calls) :
                /\ calls[i].t = k
                /\ calls[i].old = history.items[k]

\* C5 witness: a constructed Slate whose history holds a value equal to
\* the one currently held, because it was assigned again.
C5_Witness ==
    /\ origin = "constructed"
    /\ lastCall = "change"
    /\ \E k \in Keys(history) : history.items[k] = value

\* C6: postcondition of change(new_value) on a constructed Slate with
\* timestamp t and value c: history maps t to c (an entry already at t is
\* overwritten), every other entry is unchanged, history grew by at most one
\* entry, value is new_value and last_change is the clock's token; the first
\* change leaves exactly the entry construction timestamp -> initial value.
C6_ChangePostcondition ==
    [][(origin = "constructed" /\ lastCall' = "change") =>
          LET t == last_change
              c == value
              new_value == calls'[Len(calls')].new
          IN  /\ err' = ""
              /\ history'.type = "dict"
              /\ Keys(history') = Keys(history) \cup {t}
              /\ history'.items[t] = c
              /\ \A k \in Keys(history) \ {t} : history'.items[k] = history.items[k]
              /\ Cardinality(Keys(history')) <= Cardinality(Keys(history)) + 1
              /\ value' = new_value
              /\ last_change' = asctime(now)
              /\ (Len(calls) = 0 => history'.items = (t :> c))]_vars

\* C6 witness: a second change() within the same second has overwritten
\* the entry of the first with a different value.
C6_Witness ==
    /\ origin = "constructed"
    /\ lastCall = "change"
    /\ Len(calls) = 2
    /\ calls[1].t = calls[2].t
    /\ calls[1].old # calls[2].old
    /\ Cardinality(Keys(history)) = 1

\* C7 (as claimed): loads of a serialized form that is no mapping fails with
\* FormatError and installs no such object as history; loads of a mapping
\* succeeds.
C7_DeserializeRejectsInvalid ==
    /\ (lastCall = "loads" /\ r.type # "dict") => err = "FormatError"
    /\ history.type = "dict"
    /\ (lastCall = "loads" /\ r.type = "dict") => err = ""

C9_CounterCountsChanges ==
    a_dict["counter"] = a_changes

\* C10 (as claimed): in every finished with block over a closable object
\* __exit__ called close() exactly once, and an exception raised in the body
\* propagated unless it was the AttributeError of a missing close().
C10_OnlyMissingCloseSuppressed ==
    \A i \in 1..Len(c_log) :
        LET b == c_log[i]
        IN  /\ HasClose(b.obj) => b.closes = 1
            /\ (b.raised # "none" /\ ~(b.raised = "AttributeError" /\ ~HasClose(b.obj)))
                  => b.propagated = b.raised

====
